---- MODULE Spec2Model ----
(***************************************************************************)
(* GovFinViz: the budget data aggregation layer (data_processor.py) and    *)
(* the retrieval-augmented chatbot (chatbot.py).                           *)
(*                                                                         *)
(* Encoding of table cells (pandas values) as integers:                    *)
(*    n >= 0     a numeric amount                                          *)
(*    NaN        a missing value (float NaN)                               *)
(*    BadStr     a raw text cell that does not parse as a number           *)
(*    Str(n)     a raw text cell such as "1,234" that parses to n          *)
(* Names (ministry, scheme, revenue source) and queries are sequences of   *)
(* one-character strings.                                                  *)
(***************************************************************************)
EXTENDS Integers, Sequences, FiniteSets, TLC

VARIABLES revenue_data, expenditure_data, budget_summary,
          detailed_expenditures, detailed_revenues, scheme_outcomes, speeches,
          result,
          conversation_history, chat_result, sent_prompt, messages, calls

tables == <<revenue_data, expenditure_data, budget_summary,
            detailed_expenditures, detailed_revenues, scheme_outcomes, speeches>>
chatvars == <<conversation_history, chat_result, sent_prompt, messages, calls>>
vars == <<revenue_data, expenditure_data, budget_summary,
          detailed_expenditures, detailed_revenues, scheme_outcomes, speeches,
          result,
          conversation_history, chat_result, sent_prompt, messages, calls>>

----------------------------------------------------------------------------
(* Bounds of the model *)
MaxYearsLen == 2
MaxCalls == 2
MaxCallsLong == 11

\* the sessions that share one DataProcessor; a read leaves nothing behind for the
\* next one, so two callers show every interleaving there is
Sessions == {1, 2}

----------------------------------------------------------------------------
(* Cells *)
NaN == -1
BadStr == -2
Str(n) == -(n + 10)
IsStr(c) == c <= BadStr
notna(c) == c # NaN

\* pd.to_numeric(col.astype(str).str.replace(',', '').str.replace('"', ''), errors='coerce')
to_numeric(c) == IF c = NaN \/ c = BadStr THEN NaN
                 ELSE IF IsStr(c) THEN -(c + 10) ELSE c

\* range(2016, 2026) and the column list of _clean_data
FirstYear == 2016
LastYear == 2025
AllYears == FirstYear..LastYear

----------------------------------------------------------------------------
(* Sequences *)
RECURSIVE SelectIdx(_, _, _)
\* the indices i in k..Len(s) with Keep(s[i]) given as the set keep, in order
SelectIdx(n, keep, k) ==
    IF k > n THEN <<>>
    ELSE IF k \in keep THEN <<k>> \o SelectIdx(n, keep, k + 1)
    ELSE SelectIdx(n, keep, k + 1)

\* rows of a table that satisfy a boolean mask, in table order
Filter(rows, keep) ==
    LET
        Pick(idx) == [i \in 1..Len(idx) |-> rows[idx[i]]]
    IN
        Pick(SelectIdx(Len(rows), keep, 1))

\* s[:n]
Head_n(s, n) == IF Len(s) <= n THEN s ELSE SubSeq(s, 1, n)
\* s[-n:]
Tail_n(s, n) == IF Len(s) <= n THEN s ELSE SubSeq(s, Len(s) - n + 1, Len(s))

----------------------------------------------------------------------------
(* Names and patterns *)
lower(c) == CASE c = "D" -> "d" [] c = "F" -> "f" [] c = "G" -> "g"
              [] c = "C" -> "c" [] c = "I" -> "i" [] OTHER -> c
\* a pattern character matches a name character under re.IGNORECASE
CharMatch(p, c) == p = "." \/ lower(p) = lower(c)
\* re.compile(query) raises re.error on an unbalanced parenthesis
BadPattern(pat) == \E j \in 1..Len(pat) : pat[j] = "("
\* Series.str.contains(pat, case=False, na=False): regex search anywhere in the name
contains(name, pat) ==
    \E i \in 0..(Len(name) - Len(pat)) :
        \A j \in 1..Len(pat) : CharMatch(pat[j], name[i + j])

\* 'Goods and Services Tax (GST)', 'Corporation Tax', 'Income Tax'
GST == <<"G", "s", "t">>
CorporationTax == <<"C", "o", "r">>
IncomeTax == <<"I", "n", "c">>
major_sources == <<CorporationTax, IncomeTax, GST>>
\* 'Ministry of Defence'
MinistryOfDefence == <<"D", "e", "f">>
MinistryOfFinance == <<"F", "i", "n">>
MinistryOfDefenceProduction == <<"D", "e", "f", "p">>

----------------------------------------------------------------------------
(* The source files on disk *)
YearRow(a16, a17, a24, a25) ==
    [y \in AllYears |-> CASE y = 2016 -> a16 [] y = 2017 -> a17
                          [] y = 2024 -> a24 [] y = 2025 -> a25 [] OTHER -> NaN]

\* data/year_wise_revenue.csv: Revenue Source, one text column per year
Revenue1 == << [name |-> GST, amt |-> YearRow(NaN, Str(2), Str(6), Str(6))],
              [name |-> IncomeTax, amt |-> YearRow(Str(2), Str(3), Str(4), Str(4))] >>
Revenue2 == << [name |-> CorporationTax, amt |-> YearRow(Str(1), Str(2), NaN, BadStr)],
              [name |-> GST, amt |-> YearRow(NaN, NaN, Str(3), NaN)] >>
Revenue3 == << [name |-> IncomeTax, amt |-> YearRow(NaN, NaN, NaN, NaN)] >>

\* data/year_wise_expenditures.csv: Rank, Ministry Name, year columns, 10-Year Total
Expenditure1 ==
    << [name |-> MinistryOfFinance, rank |-> 1, total10 |-> "t1",
        amt |-> YearRow(Str(4), Str(4), Str(8), Str(9))],
       [name |-> MinistryOfDefence, rank |-> 2, total10 |-> "t2",
        amt |-> YearRow(Str(2), Str(2), Str(5), Str(5))],
       [name |-> MinistryOfDefenceProduction, rank |-> 3, total10 |-> "t3",
        amt |-> YearRow(Str(1), NaN, Str(5), NaN)] >>
Expenditure2 ==
    << [name |-> MinistryOfDefenceProduction, rank |-> 1, total10 |-> "t3",
        amt |-> YearRow(NaN, Str(1), NaN, Str(0))],
       [name |-> MinistryOfDefence, rank |-> 2, total10 |-> "t2",
        amt |-> YearRow(Str(2), NaN, Str(3), BadStr)] >>
Expenditure3 == << >>

\* the deficit ratio is held in half percentage points: pct = 9 stands for 4.5
SummaryRecord(y, rec, exp, gdp, pct) ==
    [year |-> y, total_receipts |-> rec, total_expenditure |-> exp,
     gdp_nominal_in_crores |-> gdp, fiscal_deficit_in_crores |-> exp - rec,
     fiscal_deficit_as_gdp_pct |-> pct]

\* data/budget_summary.csv: one row per year
Summary1 == << SummaryRecord(2024, 10, 15, 100, 5), SummaryRecord(2025, 12, 16, 100, 4) >>
Summary2 == << SummaryRecord(2025, 12, 16, 100, 4) >>
Summary3 == << SummaryRecord(2024, 10, 15, 100, 5) >>
Summary4 == << >>

\* data/expenditures_detailed.csv
Detailed1 ==
    << [year |-> 2025, ministry_name |-> MinistryOfDefence,
        grant_or_scheme_name |-> <<"d", "g">>, amount_in_crores |-> 3,
        expenditure_type |-> "Revenue", estimate_type |-> "BE"],
       [year |-> 2025, ministry_name |-> MinistryOfDefenceProduction,
        grant_or_scheme_name |-> <<"p", "g">>, amount_in_crores |-> 2,
        expenditure_type |-> "Capital", estimate_type |-> "BE"],
       [year |-> 2024, ministry_name |-> MinistryOfFinance,
        grant_or_scheme_name |-> <<"f", "i">>, amount_in_crores |-> 1,
        expenditure_type |-> "Revenue", estimate_type |-> "RE"] >>
Detailed2 == << >>

\* data/speeches.csv
Speech1 == << [year |-> 2025, ai_summary |-> "speech2025"] >>
Speech2 == << >>

\* the contents of the data directory: one record of files per installation
Disk(rev, exp, summ, det, sp) == [rev |-> rev, exp |-> exp, summ |-> summ, det |-> det, sp |-> sp]
Disks == { Disk(Revenue1, Expenditure1, Summary1, Detailed1, Speech1),
           Disk(Revenue2, Expenditure2, Summary2, Detailed1, Speech2),
           Disk(Revenue1, Expenditure1, Summary3, Detailed1, Speech1),
           Disk(Revenue3, Expenditure3, Summary4, Detailed2, Speech2),
           Disk(Revenue2, Expenditure1, Summary1, Detailed2, Speech1),
           Disk(Revenue1, Expenditure2, Summary3, Detailed1, Speech2) }

\* index of each file in the order load_data reads them
NumFiles == 7
Unloaded == [loaded |-> FALSE, rows |-> <<>>]
Loaded(rs) == [loaded |-> TRUE, rows |-> rs]

\* _clean_data on a year-column table
clean_year_table(t) ==
    [loaded |-> t.loaded,
     rows |-> [i \in 1..Len(t.rows) |->
                 [t.rows[i] EXCEPT !.amt = [y \in AllYears |-> to_numeric(t.rows[i].amt[y])]]]]

\* _clean_data on a detail table: amount_in_crores through pd.to_numeric
clean_detail_table(t) ==
    [loaded |-> t.loaded,
     rows |-> [i \in 1..Len(t.rows) |->
                 [t.rows[i] EXCEPT !.amount_in_crores = to_numeric(t.rows[i].amount_in_crores)]]]

\* load_data: read_csv of the seven files in order; failAt is the index of the
\* first file that is absent or unreadable (0 when all are read).  The except
\* clause only reports: tables read before the failure stay, _clean_data is skipped.
read_csv(k, failAt, rs) == IF failAt = 0 \/ k < failAt THEN Loaded(rs) ELSE Unloaded

load_data(failAt, disk) ==
    LET raw == [revenue_data |-> read_csv(1, failAt, disk.rev),
                expenditure_data |-> read_csv(2, failAt, disk.exp),
                budget_summary |-> read_csv(3, failAt, disk.summ),
                detailed_expenditures |-> read_csv(4, failAt, disk.det),
                detailed_revenues |-> read_csv(5, failAt, <<>>),
                scheme_outcomes |-> read_csv(6, failAt, <<>>),
                speeches |-> read_csv(7, failAt, disk.sp)]
    IN IF failAt = 0
       THEN [raw EXCEPT !.revenue_data = clean_year_table(@),
                        !.expenditure_data = clean_year_table(@),
                        !.detailed_expenditures = clean_detail_table(@)]
       ELSE raw

----------------------------------------------------------------------------
(* Helpers shared by the read operations *)
\* str(year) in table.columns, for the year-column tables
has_year_col(y) == y \in AllYears

\* sorted(xs, key=lambda x: x['amount'], reverse=True): stable, descending
RECURSIVE InsertDesc(_, _)
InsertDesc(sorted, x) ==
    IF sorted = <<>> THEN <<x>>
    ELSE IF Head(sorted).amount >= x.amount
         THEN <<Head(sorted)>> \o InsertDesc(Tail(sorted), x)
         ELSE <<x>> \o sorted
RECURSIVE SortDesc(_, _)
SortDesc(xs, acc) ==
    IF xs = <<>> THEN acc ELSE SortDesc(Tail(xs), InsertDesc(acc, Head(xs)))
sorted_by_amount(xs) == SortDesc(xs, <<>>)

RECURSIVE SumAmount(_)
SumAmount(xs) == IF xs = <<>> THEN 0 ELSE Head(xs).amount + SumAmount(Tail(xs))

\* a / b * 100 as an exact fraction
Pct(a, b) == [num |-> a * 100, den |-> b]
Zero == [num |-> 0, den |-> 1]

\* rows of the summary table for one year
summary_rows(y) == Filter(budget_summary.rows,
                          {i \in 1..Len(budget_summary.rows) : budget_summary.rows[i].year = y})

\* a comparison "cell > 0" on some row of the column raises TypeError for a text cell
col_compare_raises(t, y) == \E i \in 1..Len(t.rows) : IsStr(t.rows[i].amt[y])

positive_rows(t, y) == Filter(t.rows, {i \in 1..Len(t.rows) :
                                         notna(t.rows[i].amt[y]) /\ t.rows[i].amt[y] > 0})

\* variant of _get_revenue_for_year: the percentage keeps its initial value 0
_get_revenue_for_year_unscaled(year) ==
    LET
        unscaled(rs) ==
            [i \in 1..Len(rs) |-> [source |-> rs[i].name, amount |-> rs[i].amt[year],
                                   percentage |-> Zero]]
    IN
        IF ~has_year_col(year) THEN <<>>
        ELSE sorted_by_amount(unscaled(positive_rows(revenue_data, year)))

\* _get_revenue_for_year
_get_revenue_for_year(year) ==
    LET
        revenue_entries(rs) ==
            [i \in 1..Len(rs) |-> [source |-> rs[i].name, amount |-> rs[i].amt[year]]]
        with_percentage(revenue_list, total_revenue) ==
            [i \in 1..Len(revenue_list) |->
               [source |-> revenue_list[i].source, amount |-> revenue_list[i].amount,
                percentage |-> IF total_revenue > 0
                               THEN Pct(revenue_list[i].amount, total_revenue) ELSE Zero]]
        percentages(revenue_list) == with_percentage(revenue_list, SumAmount(revenue_list))
    IN
        IF ~has_year_col(year) THEN <<>>
        ELSE sorted_by_amount(percentages(revenue_entries(positive_rows(revenue_data, year))))

\* variant of _get_top_ministries_for_year: equal amounts come out in reverse table order
_get_top_ministries_for_year_unstable(year, top_n) ==
    LET
        entries_backwards(rs) ==
            [i \in 1..Len(rs) |-> [ministry |-> rs[Len(rs) + 1 - i].name,
                                   amount |-> rs[Len(rs) + 1 - i].amt[year],
                                   rank |-> rs[Len(rs) + 1 - i].rank]]
    IN
        IF ~has_year_col(year) THEN <<>>
        ELSE Head_n(sorted_by_amount(entries_backwards(positive_rows(expenditure_data, year))),
                    top_n)

DefaultTopN == 10
\* _get_top_ministries_for_year
_get_top_ministries_for_year(year, top_n) ==
    LET
        ministry_entries(rs) ==
            [i \in 1..Len(rs) |-> [ministry |-> rs[i].name, amount |-> rs[i].amt[year],
                                   rank |-> rs[i].rank]]
    IN
        IF ~has_year_col(year) THEN <<>>
        ELSE Head_n(sorted_by_amount(ministry_entries(positive_rows(expenditure_data, year))),
                    top_n)

rows_of_year(t, year) == Filter(t, {i \in 1..Len(t) : t[i].year = year})
\* _get_key_schemes_for_year
_get_key_schemes_for_year(year) ==
    LET
        scheme_entries(ys) ==
            [i \in 1..Len(ys) |-> [ministry |-> ys[i].ministry_name,
                                   scheme |-> ys[i].grant_or_scheme_name,
                                   amount |-> ys[i].amount_in_crores,
                                   type |-> ys[i].expenditure_type,
                                   estimate_type |-> ys[i].estimate_type]]
    IN
        sorted_by_amount(scheme_entries(rows_of_year(detailed_expenditures.rows, year)))

\* variant of _get_deficit_trend: an unchanged ratio counts as an improvement
_get_deficit_trend_nonstrict(current_year) ==
    LET
        compare_nonstrict(current_deficit, previous_year_data) ==
            IF previous_year_data # <<>>
            THEN IF current_deficit <= previous_year_data[1].fiscal_deficit_as_gdp_pct
                 THEN "Improving" ELSE "Deteriorating"
            ELSE "No trend data"
    IN
        IF ~budget_summary.loaded \/ summary_rows(current_year) = <<>> THEN "Unknown"
        ELSE compare_nonstrict(summary_rows(current_year)[1].fiscal_deficit_as_gdp_pct,
                               summary_rows(current_year - 1))

\* variant of _get_deficit_trend: a rise of up to half a point still counts as stable
_get_deficit_trend_tolerant(current_year) ==
    LET
        compare_tolerant(current_deficit, previous_year_data) ==
            IF previous_year_data # <<>>
            THEN IF current_deficit < previous_year_data[1].fiscal_deficit_as_gdp_pct THEN "Improving"
                 ELSE IF current_deficit > previous_year_data[1].fiscal_deficit_as_gdp_pct + 1
                      THEN "Deteriorating"
                 ELSE "Stable"
            ELSE "No trend data"
    IN
        IF ~budget_summary.loaded \/ summary_rows(current_year) = <<>> THEN "Unknown"
        ELSE compare_tolerant(summary_rows(current_year)[1].fiscal_deficit_as_gdp_pct,
                              summary_rows(current_year - 1))

\* _get_deficit_trend: any failure inside is turned into "Unknown"
_get_deficit_trend(current_year) ==
    LET
        compare_deficit(current_deficit, previous_year_data) ==
            IF previous_year_data # <<>>
            THEN IF current_deficit < previous_year_data[1].fiscal_deficit_as_gdp_pct THEN "Improving"
                 ELSE IF current_deficit > previous_year_data[1].fiscal_deficit_as_gdp_pct
                      THEN "Deteriorating"
                 ELSE "Stable"
            ELSE "No trend data"
    IN
        IF ~budget_summary.loaded \/ summary_rows(current_year) = <<>> THEN "Unknown"
        ELSE compare_deficit(summary_rows(current_year)[1].fiscal_deficit_as_gdp_pct,
                             summary_rows(current_year - 1))

\* _calculate_fiscal_health
_calculate_fiscal_health(budget_data) ==
    [budget_balance |-> budget_data.total_receipts - budget_data.total_expenditure,
     expenditure_to_gdp |-> IF budget_data.gdp_nominal_in_crores > 0
                            THEN Pct(budget_data.total_expenditure, budget_data.gdp_nominal_in_crores)
                            ELSE Zero,
     revenue_to_gdp |-> IF budget_data.gdp_nominal_in_crores > 0
                        THEN Pct(budget_data.total_receipts, budget_data.gdp_nominal_in_crores)
                        ELSE Zero,
     fiscal_deficit_ratio |-> budget_data.fiscal_deficit_as_gdp_pct,
     deficit_trend |-> _get_deficit_trend(budget_data.year)]

----------------------------------------------------------------------------
(* get_year_overview *)
NotFound(y) == [kind |-> "error", error |-> "No data available for year", year |-> y]
ProcessingError(y) == [kind |-> "error", error |-> "Error processing year", year |-> y]

\* an exception reaches the except clause of get_year_overview
year_overview_raises(year) ==
    \/ ~budget_summary.loaded
    \/ /\ summary_rows(year) # <<>>
       /\ \/ ~revenue_data.loaded
          \/ has_year_col(year) /\ col_compare_raises(revenue_data, year)
          \/ ~expenditure_data.loaded
          \/ has_year_col(year) /\ col_compare_raises(expenditure_data, year)
          \/ ~detailed_expenditures.loaded
          \/ ~speeches.loaded

\* variant of get_year_overview: no early return for a year without a summary
\* record, the data fields are filled from the other tables
get_year_overview_partial(year) ==
    IF ~budget_summary.loaded \/ ~revenue_data.loaded \/ ~expenditure_data.loaded
       \/ (summary_rows(year) # <<>> /\ year_overview_raises(year))
    THEN ProcessingError(year)
    ELSE [kind |-> "data",
          error |-> "No data available for year",
          budget_summary |-> IF summary_rows(year) = <<>> THEN <<>> ELSE summary_rows(year)[1],
          revenue_breakdown |-> IF has_year_col(year) /\ col_compare_raises(revenue_data, year)
                                THEN <<>> ELSE _get_revenue_for_year(year),
          top_ministries |-> <<>>,
          key_schemes |-> <<>>,
          speech_summary |-> "No speech data available"]

get_year_overview(year) ==
    LET
        overview_record(budget_data, speech_data) ==
            [kind |-> "data",
             budget_summary |-> budget_data,
             revenue_breakdown |-> _get_revenue_for_year(year),
             top_ministries |-> _get_top_ministries_for_year(year, DefaultTopN),
             key_schemes |-> _get_key_schemes_for_year(year),
             speech_summary |-> IF speech_data # <<>> THEN speech_data[1].ai_summary
                                ELSE "No speech data available",
             fiscal_health |-> _calculate_fiscal_health(budget_data)]
    IN
        IF year_overview_raises(year) THEN ProcessingError(year)
        ELSE IF summary_rows(year) = <<>> THEN NotFound(year)
        ELSE overview_record(summary_rows(year)[1], rows_of_year(speeches.rows, year))

----------------------------------------------------------------------------
(* get_ministry_details *)
ministry_details_raises(year, ministry_name) ==
    \/ ~expenditure_data.loaded
    \/ BadPattern(ministry_name)
    \/ ~has_year_col(year)
    \/ ~detailed_expenditures.loaded

\* variant of defined_years: every year of the range, with or without an amount
defined_years_unchecked(row) == SelectIdx(LastYear, AllYears, FirstYear)

\* the years of range(2016, 2026) with a defined amount in the row
defined_years(row) == SelectIdx(LastYear, {yr \in AllYears : notna(row.amt[yr])}, FirstYear)

get_ministry_details(year, ministry_name) ==
    LET
        ministry_record(ministry_data, yrs, ministry_schemes) ==
            [kind |-> "data",
             ministry_name |-> ministry_data.name,
             current_allocation |-> ministry_data.amt[year],
             rank |-> ministry_data.rank,
             historical_trend |-> [i \in 1..Len(yrs) |->
                                     [year |-> yrs[i], amount |-> ministry_data.amt[yrs[i]]]],
             major_schemes |-> [i \in 1..Len(ministry_schemes) |->
                                  [scheme |-> ministry_schemes[i].grant_or_scheme_name,
                                   amount |-> ministry_schemes[i].amount_in_crores,
                                   type |-> ministry_schemes[i].expenditure_type]],
             total_10_year |-> ministry_data.total10]
        resolve_ministry(ministry_row, d) ==
            IF ministry_row = <<>>
            THEN [kind |-> "error", error |-> "No data found for ministry in year"]
            ELSE ministry_record(ministry_row[1], defined_years(ministry_row[1]),
                                 Filter(d, {i \in 1..Len(d) :
                                              d[i].year = year /\ contains(d[i].ministry_name, ministry_name)}))
        matching_rows(t) ==
            Filter(t, {i \in 1..Len(t) : contains(t[i].name, ministry_name) /\ notna(t[i].amt[year])})
    IN
        IF ministry_details_raises(year, ministry_name)
        THEN [kind |-> "error", error |-> "Error processing ministry data"]
        ELSE resolve_ministry(matching_rows(expenditure_data.rows),
                              detailed_expenditures.rows)

----------------------------------------------------------------------------
(* get_comparison_data *)
\* variant of year_series: a requested year without an amount is reported with 0
year_series_zero_fill(row, years) ==
    LET
        filled(keep) ==
            [i \in 1..Len(keep) |->
               [year |-> years[keep[i]],
                amount |-> IF notna(row.amt[years[keep[i]]]) THEN row.amt[years[keep[i]]] ELSE 0]]
    IN
        filled(SelectIdx(Len(years), {k \in 1..Len(years) : has_year_col(years[k])}, 1))

\* the amounts of one row in the requested years, in the order of the caller's list
year_series(row, years) ==
    LET
        series_of(keep) ==
            [i \in 1..Len(keep) |-> [year |-> years[keep[i]], amount |-> row.amt[years[keep[i]]]]]
    IN
        series_of(SelectIdx(Len(years), {k \in 1..Len(years) :
                                          has_year_col(years[k]) /\ notna(row.amt[years[k]])}, 1))

\* the first row of a table with the given name (table[table[col] == name].iloc[0])
first_named(rows, name) == rows[CHOOSE i \in 1..Len(rows) :
                                  rows[i].name = name /\ \A j \in 1..(i - 1) : rows[j].name # name]

\* a dict filled in table order: one entry per distinct name, at its first position,
\* kept only when the series is not empty
series_dict(rows, names, years) ==
    LET
        dict_entries(keep) ==
            [i \in 1..Len(keep) |-> [key |-> names[keep[i]],
                                     series |-> year_series(first_named(rows, names[keep[i]]), years)]]
    IN
        dict_entries(SelectIdx(Len(names), {k \in 1..Len(names) :
                                 /\ \A j \in 1..(k - 1) : names[j] # names[k]
                                 /\ year_series(first_named(rows, names[k]), years) # <<>>}, 1))

TopMinistries == 10
comparison_raises(years) ==
    \/ years # <<>> /\ ~budget_summary.loaded
    \/ ~revenue_data.loaded
    \/ ~expenditure_data.loaded

get_comparison_data(years) ==
    LET
        names_of(rows) == [i \in 1..Len(rows) |-> rows[i].name]
        \* the summary record of each requested year that has one, in the caller's order
        summary_list(found) == [i \in 1..Len(found) |-> summary_rows(years[found[i]])[1]]
    IN
        IF comparison_raises(years)
        THEN [kind |-> "error", error |-> "Error creating comparison"]
        ELSE [kind |-> "data",
              years |-> years,
              budget_summary |-> summary_list(SelectIdx(Len(years), {k \in 1..Len(years) : summary_rows(years[k]) # <<>>}, 1)),
              revenue_comparison |-> series_dict(revenue_data.rows, names_of(revenue_data.rows), years),
              expenditure_comparison |-> <<>>,
              ministry_trends |-> series_dict(expenditure_data.rows,
                                              names_of(Head_n(expenditure_data.rows, TopMinistries)),
                                              years)]

----------------------------------------------------------------------------
(* search_data: no exception handler of its own *)
search_raises(query) ==
    \/ ~expenditure_data.loaded
    \/ BadPattern(query)
    \/ ~detailed_expenditures.loaded
    \/ ~revenue_data.loaded

search_data(query) ==
    LET
        ministry_hits(ms) == [i \in 1..Len(ms) |-> [name |-> ms[i].name, rank |-> ms[i].rank,
                                                    latest_allocation |-> ms[i].amt[LastYear]]]
        scheme_hits(ss) == [i \in 1..Len(ss) |-> [name |-> ss[i].grant_or_scheme_name,
                                                  ministry |-> ss[i].ministry_name,
                                                  amount |-> ss[i].amount_in_crores,
                                                  year |-> ss[i].year]]
        revenue_hits(rs) == [i \in 1..Len(rs) |-> [source |-> rs[i].name,
                                                   latest_amount |-> rs[i].amt[LastYear]]]
        name_matches(t) == Filter(t, {i \in 1..Len(t) : contains(t[i].name, query)})
        scheme_matches(d) ==
            Filter(d, {i \in 1..Len(d) : contains(d[i].grant_or_scheme_name, query)})
    IN
        IF search_raises(query) THEN [kind |-> "raised"]
        ELSE [kind |-> "data",
              ministries |-> ministry_hits(name_matches(expenditure_data.rows)),
              schemes |-> scheme_hits(scheme_matches(detailed_expenditures.rows)),
              revenue_sources |-> revenue_hits(name_matches(revenue_data.rows)),
              insights |-> <<>>]

----------------------------------------------------------------------------
(* Exact fractions for the float arithmetic of the insights report.        *)
(* A denominator 0 stands for the inf/nan that numpy yields on x / 0.      *)
Frac(n, d) == [num |-> n, den |-> d]
FAdd(a, b) == Frac(a.num * b.den + b.num * a.den, a.den * b.den)
\* a >= b for fractions with positive denominators
FGeq(a, b) == a.num * b.den >= b.num * a.den
RECURSIVE FSum(_)
FSum(fs) == IF fs = <<>> THEN Frac(0, 1) ELSE FAdd(Head(fs), FSum(Tail(fs)))
\* np.mean of a list of fractions
FMean(fs) ==
    LET
        FDiv(total, n) == Frac(total.num, total.den * n)
    IN
        FDiv(FSum(fs), Len(fs))

RECURSIVE InsertDescBy(_, _)
\* stable descending insertion on the field "key", a fraction
InsertDescBy(sorted, x) ==
    IF sorted = <<>> THEN <<x>>
    ELSE IF FGeq(Head(sorted).key, x.key)
         THEN <<Head(sorted)>> \o InsertDescBy(Tail(sorted), x)
         ELSE <<x>> \o sorted
RECURSIVE SortDescBy(_, _)
SortDescBy(xs, acc) ==
    IF xs = <<>> THEN acc ELSE SortDescBy(Tail(xs), InsertDescBy(acc, Head(xs)))

RECURSIVE InsertByYear(_, _)
InsertByYear(sorted, x) ==
    IF sorted = <<>> THEN <<x>>
    ELSE IF Head(sorted).year <= x.year
         THEN <<Head(sorted)>> \o InsertByYear(Tail(sorted), x)
         ELSE <<x>> \o sorted
RECURSIVE SortByYear(_, _)
\* sorted(fiscal_data, key=lambda x: x['year'])
SortByYear(xs, acc) ==
    IF xs = <<>> THEN acc ELSE SortByYear(Tail(xs), InsertByYear(acc, Head(xs)))

RECURSIVE SumSeq(_)
SumSeq(xs) == IF xs = <<>> THEN 0 ELSE Head(xs) + SumSeq(Tail(xs))

has_row(rows, name) == \E i \in 1..Len(rows) : rows[i].name = name

----------------------------------------------------------------------------
(* _analyze_revenue_trends *)
revenue_trends_raises ==
    \/ ~revenue_data.loaded
    \/ \E k \in 1..Len(major_sources) :
         /\ has_row(revenue_data.rows, major_sources[k])
         /\ \E year \in (FirstYear + 1)..LastYear :
              LET source_data == first_named(revenue_data.rows, major_sources[k])
              IN /\ notna(source_data.amt[year])
                 /\ notna(source_data.amt[year - 1])
                 /\ IsStr(source_data.amt[year - 1])

source_growth_rates(source_data) ==
    LET
        growth_between(ys) ==
            [i \in 1..Len(ys) |->
               [year |-> ys[i],
                growth_rate |-> Frac((source_data.amt[ys[i]] - source_data.amt[ys[i] - 1]) * 100,
                                     source_data.amt[ys[i] - 1])]]
    IN
        growth_between(SelectIdx(LastYear, {year \in (FirstYear + 1)..LastYear :
                                   /\ notna(source_data.amt[year])
                                   /\ notna(source_data.amt[year - 1])
                                   /\ source_data.amt[year - 1] > 0}, FirstYear + 1))

_analyze_revenue_trends ==
    LET
        trend_entry(source, growth_rates) ==
            [source |-> source,
             growth_rates |-> growth_rates,
             avg_growth |-> IF growth_rates # <<>>
                            THEN FMean([j \in 1..Len(growth_rates) |-> growth_rates[j].growth_rate])
                            ELSE Frac(0, 1)]
        trends_of(sources) ==
            [i \in 1..Len(sources) |->
               trend_entry(sources[i], source_growth_rates(first_named(revenue_data.rows, sources[i])))]
    IN
        trends_of(Filter(major_sources, {k \in 1..Len(major_sources) :
                                           has_row(revenue_data.rows, major_sources[k])}))

----------------------------------------------------------------------------
(* _analyze_expenditure_patterns *)
TopGrowing == 10
Declining == 5

\* start_val > 0 on a text cell raises TypeError
expenditure_patterns_raises ==
    \/ ~expenditure_data.loaded
    \/ \E i \in 1..Len(expenditure_data.rows) :
         LET ministry == expenditure_data.rows[i]
         IN /\ notna(ministry.amt[FirstYear]) /\ notna(ministry.amt[LastYear])
            /\ IsStr(ministry.amt[FirstYear])

\* DataFrame[col].sum(): missing cells are skipped, that is, count as 0
column_sum(rows, y) == SumSeq([i \in 1..Len(rows) |->
                                 IF notna(rows[i].amt[y]) THEN rows[i].amt[y] ELSE 0])

\* variant of _analyze_expenditure_patterns: a blank 2025 cell counts as 0
_analyze_expenditure_patterns_zero_end ==
    LET
        or_zero_end(ministry) == IF notna(ministry.amt[LastYear]) THEN ministry.amt[LastYear] ELSE 0
        growth_to_zero(g) ==
            [i \in 1..Len(g) |->
               [name |-> g[i].name,
                key |-> Frac((or_zero_end(g[i]) - g[i].amt[FirstYear]) * 100, g[i].amt[FirstYear])]]
        patterns_of(e, sorted_growth) ==
            [yearly_totals |-> [i \in 1..(LastYear - FirstYear + 1) |->
                                  [year |-> FirstYear + i - 1, total |-> column_sum(e, FirstYear + i - 1)]],
             top_growing_ministries |-> Head_n(sorted_growth, TopGrowing),
             declining_ministries |-> Tail_n(sorted_growth, Declining)]
        rows_with_start(e) ==
            Filter(e, {i \in 1..Len(e) : notna(e[i].amt[FirstYear]) /\ e[i].amt[FirstYear] > 0})
    IN
        patterns_of(expenditure_data.rows,
                    SortDescBy(growth_to_zero(rows_with_start(expenditure_data.rows)), <<>>))

_analyze_expenditure_patterns ==
    LET
        ministry_growth(g) ==
            [i \in 1..Len(g) |->
               [name |-> g[i].name,
                key |-> Frac((g[i].amt[LastYear] - g[i].amt[FirstYear]) * 100, g[i].amt[FirstYear])]]
        patterns_record(e, sorted_growth) ==
            [yearly_totals |-> [i \in 1..(LastYear - FirstYear + 1) |->
                                  [year |-> FirstYear + i - 1, total |-> column_sum(e, FirstYear + i - 1)]],
             top_growing_ministries |-> Head_n(sorted_growth, TopGrowing),
             declining_ministries |-> Tail_n(sorted_growth, Declining)]
        growing_rows(e) ==
            Filter(e, {i \in 1..Len(e) : /\ notna(e[i].amt[FirstYear]) /\ notna(e[i].amt[LastYear])
                                         /\ e[i].amt[FirstYear] > 0})
    IN
        patterns_record(expenditure_data.rows,
                        SortDescBy(ministry_growth(growing_rows(expenditure_data.rows)), <<>>))

----------------------------------------------------------------------------
(* _analyze_fiscal_trends and _classify_fiscal_trend *)
TrendWindow == 3

fiscal_trends_raises == ~budget_summary.loaded

\* recent_avg < early_avg - 0.5 and recent_avg > early_avg + 0.5 on the means of
\* the deficit ratios, which are sums r and e of half points over nr and ne years;
\* every comparison with the nan of an empty mean is false
_classify_fiscal_trend(fiscal_data) ==
    LET
        compare_averages(r, e, nr, ne) ==
            IF nr = 0 THEN "Stable fiscal health"
            ELSE IF r * ne < e * nr - nr * ne THEN "Improving fiscal health"
            ELSE IF r * ne > e * nr + nr * ne THEN "Deteriorating fiscal health"
            ELSE "Stable fiscal health"
        deficit_sum(years) == SumSeq([i \in 1..Len(years) |-> years[i].fiscal_deficit_ratio])
        classify_windows(recent_years, early_years) ==
            compare_averages(deficit_sum(recent_years), deficit_sum(early_years),
                             Len(recent_years), Len(early_years))
        classify_sorted(sorted_data) ==
            classify_windows(Tail_n(sorted_data, TrendWindow), Head_n(sorted_data, TrendWindow))
    IN
        classify_sorted(SortByYear(fiscal_data, <<>>))

_analyze_fiscal_trends ==
    LET
        fiscal_record(b, fiscal_data) ==
            [yearly_data |-> fiscal_data,
             average_deficit_ratio |-> Frac(SumSeq([i \in 1..Len(b) |-> b[i].fiscal_deficit_as_gdp_pct]), 2 * Len(b)),
             average_expenditure_to_gdp |-> FMean([i \in 1..Len(b) |-> fiscal_data[i].expenditure_to_gdp]),
             trend_analysis |-> _classify_fiscal_trend(fiscal_data)]
        fiscal_rows(b) ==
            [i \in 1..Len(b) |->
               [year |-> b[i].year,
                fiscal_deficit_ratio |-> b[i].fiscal_deficit_as_gdp_pct,
                expenditure_to_gdp |-> Pct(b[i].total_expenditure, b[i].gdp_nominal_in_crores),
                revenue_to_gdp |-> Pct(b[i].total_receipts, b[i].gdp_nominal_in_crores)]]
    IN
        fiscal_record(budget_summary.rows, fiscal_rows(budget_summary.rows))

----------------------------------------------------------------------------
(* _analyze_ministry_performance *)
\* np.mean on a list of text cells raises TypeError
ministry_performance_raises ==
    \/ ~expenditure_data.loaded
    \/ \E i \in 1..Len(expenditure_data.rows) : \E y \in AllYears :
         IsStr(expenditure_data.rows[i].amt[y])

ministry_stats(ministry) ==
    LET
        \* population variance (n * sum(x^2) - sum(x)^2) / n^2, and
        \* 1 / (1 + variance / mean) = n * total / (n * total + v)
        stats_record(name, n, total, v) ==
            [name |-> name,
             count |-> n,
             average_allocation |-> Frac(total, n),
             total_allocation |-> total,
             allocation_variance |-> Frac(v, n * n),
             consistency_score |-> IF total > 0 THEN Frac(n * total, n * total + v) ELSE Frac(0, 1)]
        stats_of_sums(name, n, total, squares) == stats_record(name, n, total, n * squares - total * total)
        stats_of(name, allocations) ==
            stats_of_sums(name, Len(allocations), SumSeq(allocations),
                          SumSeq([i \in 1..Len(allocations) |-> allocations[i] * allocations[i]]))
        defined_amounts(ys) == [i \in 1..Len(ys) |-> ministry.amt[ys[i]]]
    IN
        stats_of(ministry.name, defined_amounts(defined_years(ministry)))

_analyze_ministry_performance ==
    LET
        performance_record(stats) ==
            [top_by_total |-> Head_n(SortDescBy([i \in 1..Len(stats) |->
                                [name |-> stats[i].name, key |-> Frac(stats[i].total_allocation, 1)]], <<>>), 10),
             most_consistent |-> Head_n(SortDescBy([i \in 1..Len(stats) |->
                                [name |-> stats[i].name, key |-> stats[i].consistency_score]], <<>>), 10),
             ministry_statistics |-> stats]
        with_allocations(all) == Filter(all, {i \in 1..Len(all) : all[i].count > 0})
        all_stats(e) == [i \in 1..Len(e) |-> ministry_stats(e[i])]
    IN
        performance_record(with_allocations(all_stats(expenditure_data.rows)))

----------------------------------------------------------------------------
(* _generate_key_findings *)
GstReferenceYear == 2017

key_findings_raises ==
    \/ ~revenue_data.loaded
    \/ /\ has_row(revenue_data.rows, GST)
       /\ IsStr(first_named(revenue_data.rows, GST).amt[GstReferenceYear])
    \/ ~expenditure_data.loaded
    \/ /\ has_row(expenditure_data.rows, MinistryOfDefence)
       /\ IsStr(first_named(expenditure_data.rows, MinistryOfDefence).amt[FirstYear])
    \/ ~budget_summary.loaded
    \/ summary_rows(LastYear) = <<>>
    \/ expenditure_data.rows = <<>>

\* "x if pd.notna(x) else 0"
or_zero(c) == IF notna(c) THEN c ELSE 0

growth_finding(rows, name, from, text) ==
    LET
        growth_text(from_value, to_value) ==
            << [text |-> text, value |-> Frac((to_value - from_value) * 100, from_value)] >>
        growth_of(row) ==
            IF or_zero(row.amt[from]) > 0
            THEN growth_text(or_zero(row.amt[from]), or_zero(row.amt[LastYear]))
            ELSE <<>>
    IN
        IF has_row(rows, name) THEN growth_of(first_named(rows, name)) ELSE <<>>

_generate_key_findings ==
    growth_finding(revenue_data.rows, GST, GstReferenceYear, "GST revenue has grown")
    \o growth_finding(expenditure_data.rows, MinistryOfDefence, FirstYear, "Defense spending has increased")
    \o << [text |-> "The fiscal deficit for 2025 is projected at",
           value |-> Frac(summary_rows(LastYear)[1].fiscal_deficit_as_gdp_pct, 2)] >>
    \o << [text |-> "Ministry of Finance consistently remains the largest spender",
           value |-> Frac(0, 1)] >>

----------------------------------------------------------------------------
(* get_insights_data: one try block around the five sub-computations *)
insights_raises ==
    \/ revenue_trends_raises
    \/ expenditure_patterns_raises
    \/ fiscal_trends_raises
    \/ ministry_performance_raises
    \/ key_findings_raises

get_insights_data ==
    IF insights_raises
    THEN [kind |-> "error", error |-> "Error generating insights"]
    ELSE [kind |-> "data",
          revenue_trends |-> _analyze_revenue_trends,
          expenditure_patterns |-> _analyze_expenditure_patterns,
          fiscal_analysis |-> _analyze_fiscal_trends,
          ministry_performance |-> _analyze_ministry_performance,
          key_findings |-> _generate_key_findings]

----------------------------------------------------------------------------
(* Inputs of the read operations *)
YearInputs == {2024, 2025, 2030}
Queries == { <<>>, <<"d", "e", "f">>, <<"G">>, <<".", "g">>, <<"(">>, <<"x">> }
Patterns == { <<"d", "e", "f">>, <<"F">>, <<"(">>, <<"x">> }
RECURSIVE SeqsUpTo(_, _)
SeqsUpTo(S, n) == IF n = 0 THEN {<<>>}
                  ELSE SeqsUpTo(S, n - 1) \cup
                       {Append(q, x) : q \in {p \in SeqsUpTo(S, n - 1) : Len(p) = n - 1}, x \in S}
YearLists == SeqsUpTo(YearInputs, MaxYearsLen)

NoResult == [session |-> 0, op |-> "none", year |-> 0, pattern |-> <<>>, years |-> <<>>,
             value |-> [kind |-> "none"]]

ChatInit ==
    /\ conversation_history = <<>>
    /\ chat_result = [op |-> "none", kind |-> "none", text |-> <<>>, completion |-> "none"]
    /\ sent_prompt = <<>>
    /\ messages = <<>>
    /\ calls = 0

\* DataProcessor.__init__: every table None, then load_data
TablesInit(fails, disks) ==
    \E failAt \in fails, disk \in disks :
        LET t == load_data(failAt, disk)
        IN /\ revenue_data = t.revenue_data
           /\ expenditure_data = t.expenditure_data
           /\ budget_summary = t.budget_summary
           /\ detailed_expenditures = t.detailed_expenditures
           /\ detailed_revenues = t.detailed_revenues
           /\ scheme_outcomes = t.scheme_outcomes
           /\ speeches = t.speeches

Init ==
    /\ TablesInit(0..NumFiles, Disks)
    /\ result = NoResult
    /\ ChatInit

Call(s, op, y, pat, ys, v) ==
    /\ result' = [session |-> s, op |-> op, year |-> y, pattern |-> pat, years |-> ys, value |-> v]
    /\ UNCHANGED tables
    /\ UNCHANGED chatvars

\* variant of GetYearOverview: the ranking sorts the expenditure table in place
GetYearOverview_inplace(s, year) ==
    /\ result' = [session |-> s, op |-> "get_year_overview", year |-> year, pattern |-> <<>>,
                  years |-> <<>>, value |-> get_year_overview(year)]
    /\ expenditure_data' = [expenditure_data EXCEPT !.rows =
                               [i \in 1..Len(@) |-> @[Len(@) + 1 - i]]]
    /\ UNCHANGED <<revenue_data, budget_summary, detailed_expenditures, detailed_revenues,
                   scheme_outcomes, speeches>>
    /\ UNCHANGED chatvars

GetYearOverview(s, year) ==
    Call(s, "get_year_overview", year, <<>>, <<>>, get_year_overview(year))

GetMinistryDetails(s, year, ministry_name) ==
    Call(s, "get_ministry_details", year, ministry_name, <<>>, get_ministry_details(year, ministry_name))

GetComparisonData(s, years) ==
    Call(s, "get_comparison_data", 0, <<>>, years, get_comparison_data(years))

\* variant of GetInsightsData: the ranking of the report reorders the expenditure table
GetInsightsData_reordering(s) ==
    /\ result' = [session |-> s, op |-> "get_insights_data", year |-> 0, pattern |-> <<>>,
                  years |-> <<>>, value |-> get_insights_data]
    /\ expenditure_data' = [expenditure_data EXCEPT !.rows =
                               [i \in 1..Len(@) |-> @[Len(@) + 1 - i]]]
    /\ UNCHANGED <<revenue_data, budget_summary, detailed_expenditures, detailed_revenues,
                   scheme_outcomes, speeches>>
    /\ UNCHANGED chatvars

GetInsightsData(s) ==
    Call(s, "get_insights_data", 0, <<>>, <<>>, get_insights_data)

SearchData(s, query) ==
    Call(s, "search_data", 0, query, <<>>, search_data(query))

Next ==
    \/ \E s \in Sessions, y \in YearInputs : GetYearOverview(s, y)
    \/ \E s \in Sessions, y \in YearInputs, q \in Patterns : GetMinistryDetails(s, y, q)
    \/ \E s \in Sessions, ys \in YearLists : GetComparisonData(s, ys)
    \/ \E s \in Sessions : GetInsightsData(s)
    \/ \E s \in Sessions, q \in Queries : SearchData(s, q)

Spec == Init /\ [][Next]_vars

----------------------------------------------------------------------------
(* BudgetChatbot *)
HistoryCap == 20
RecentWindow == 6
SummaryWindow == 10
MaxMinistryHits == 5
MaxSchemeHits == 5
MaxFindings == 3

\* texts, as character sequences like the queries
ModelAnswer == <<"o", "k">>
Apology == <<"s", "o", "r", "r", "y">>
ErrorReply == <<"e", "r", "r">>
NoSpeech == <<"n", "o">>
AnalysisEmpty == <<"n", "a">>
AnalysisError == <<"e", "a">>
SummaryEmpty == <<"n", "s">>
SummaryError == <<"e", "s">>
NoHistory == <<"n", "h">>

\* outcome of gemini_client.models.generate_content: a text, an empty text, an exception
Completions == {"ok", "empty", "raise"}
\* selected_year; 0 stands for None
SelectedYears == {0, 2025}
ChatQueries == { <<"d", "e", "f">>, <<"(">> }

Returned(text) == [kind |-> "string", text |-> text]

\* the f-string format ":,.0f" raises ValueError on a text cell
context_raises(search_results) ==
    \/ \E i \in 1..Len(Head_n(search_results.ministries, MaxMinistryHits)) :
         IsStr(search_results.ministries[i].latest_allocation)
    \/ \E i \in 1..Len(search_results.revenue_sources) :
         IsStr(search_results.revenue_sources[i].latest_amount)

\* year_context of get_response: "" when no year is selected
year_context(selected_year) ==
    LET
        year_block(year_overview) ==
            << [section |-> "year",
                selected_year |-> selected_year,
                budget_summary |-> IF year_overview.kind = "data"
                                   THEN year_overview.budget_summary ELSE <<>>,
                top_ministries |-> IF year_overview.kind = "data"
                                   THEN Head_n(year_overview.top_ministries, 5) ELSE <<>>] >>
    IN
        IF selected_year = 0 THEN <<>>
        ELSE year_block(get_year_overview(selected_year))

\* variant of _prepare_context: every ministry hit is listed
_prepare_context_uncapped(search_results, year_ctx) ==
    LET
        context_parts_uncapped(key_findings) ==
            year_ctx
            \o (IF search_results.ministries # <<>>
                THEN << [section |-> "ministries", items |-> search_results.ministries] >>
                ELSE <<>>)
            \o (IF search_results.schemes # <<>>
                THEN << [section |-> "schemes",
                         items |-> Head_n(search_results.schemes, MaxSchemeHits)] >>
                ELSE <<>>)
            \o (IF search_results.revenue_sources # <<>>
                THEN << [section |-> "revenue_sources", items |-> search_results.revenue_sources] >>
                ELSE <<>>)
            \o (IF key_findings # <<>>
                THEN << [section |-> "insights", items |-> Head_n(key_findings, MaxFindings)] >>
                ELSE <<>>)
        findings_or_none(insights) == IF insights.kind = "data" THEN insights.key_findings ELSE <<>>
        joined_uncapped(parts) == [parts |-> parts, sentinel |-> parts = <<>>]
    IN
        joined_uncapped(context_parts_uncapped(findings_or_none(get_insights_data)))

\* _prepare_context: the list context_parts, and whether the sentinel is returned
_prepare_context(search_results, year_ctx) ==
    LET
        context_parts(key_findings) ==
            year_ctx
            \o (IF search_results.ministries # <<>>
                THEN << [section |-> "ministries",
                         items |-> Head_n(search_results.ministries, MaxMinistryHits)] >>
                ELSE <<>>)
            \o (IF search_results.schemes # <<>>
                THEN << [section |-> "schemes",
                         items |-> Head_n(search_results.schemes, MaxSchemeHits)] >>
                ELSE <<>>)
            \o (IF search_results.revenue_sources # <<>>
                THEN << [section |-> "revenue_sources", items |-> search_results.revenue_sources] >>
                ELSE <<>>)
            \o (IF key_findings # <<>>
                THEN << [section |-> "insights", items |-> Head_n(key_findings, MaxFindings)] >>
                ELSE <<>>)
        \* insights.get("key_findings", []) unless the report is an error
        findings_of(insights) == IF insights.kind = "data" THEN insights.key_findings ELSE <<>>
        \* the joined parts, or the sentinel text when there is none
        joined(parts) == [parts |-> parts, sentinel |-> parts = <<>>]
    IN
        joined(context_parts(findings_of(get_insights_data)))

\* variant of get_response_except: the exception leaves the method
get_response_except_reraise(history, prompt, msgs) ==
    [ret |-> [kind |-> "raised", text |-> <<>>], history |-> history,
     prompt |-> prompt, messages |-> msgs]

\* the except clause of get_response: the exception becomes an apology text;
\* the history is left as the try block left it
get_response_except(history, prompt, msgs) ==
    [ret |-> Returned(ErrorReply), history |-> history, prompt |-> prompt, messages |-> msgs]

get_response(history, user_query, selected_year, completion) ==
    LET
        SystemPrompt == [role |-> "system", content |-> <<"s", "y", "s">>]
        \* if len(self.conversation_history) > 20: keep the last 20
        trim(h2) == IF Len(h2) > HistoryCap THEN Tail_n(h2, HistoryCap) ELSE h2
        \* the reply is appended to the history and returned
        record_reply(h1, full_prompt, msgs, ai_response) ==
            [ret |-> Returned(ai_response),
             history |-> trim(Append(h1, [role |-> "assistant", content |-> ai_response])),
             prompt |-> full_prompt,
             messages |-> msgs]
        generate_content(h1, full_prompt, msgs) ==
            IF completion = "raise" THEN get_response_except(h1, full_prompt, msgs)
            ELSE record_reply(h1, full_prompt, msgs, IF completion = "ok" THEN ModelAnswer ELSE Apology)
        \* messages holds the recent history; full_prompt = f"{system_prompt}\n\n{user_prompt}"
        send_prompt(h1, user_prompt) ==
            generate_content(h1, <<SystemPrompt, user_prompt>>,
                             <<SystemPrompt>> \o Tail_n(h1, RecentWindow) \o <<user_prompt>>)
        answer_with(context) ==
            send_prompt(Append(history, [role |-> "user", content |-> user_query]),
                        [role |-> "user", content |-> user_query, context |-> context])
        answer_from(search_results) ==
            IF search_results.kind = "raised" THEN get_response_except(history, <<>>, <<>>)
            ELSE IF context_raises(search_results) THEN get_response_except(history, <<>>, <<>>)
            ELSE answer_with(_prepare_context(search_results, year_context(selected_year)))
    IN
        answer_from(search_data(user_query))

\* the except clause of analyze_budget_speech
analyze_budget_speech_except(prompt) == [ret |-> Returned(AnalysisError), prompt |-> prompt]

\* analyze_budget_speech
analyze_budget_speech(year, completion) ==
    LET
        analysis_prompt(speech_summary, year_overview) ==
            << [role |-> "analysis", year |-> year,
                speech_summary |-> speech_summary,
                top_ministries |-> IF year_overview.kind = "data"
                                   THEN Head_n(year_overview.top_ministries, 5) ELSE <<>>] >>
        send_analysis(prompt) ==
            IF completion = "raise" THEN analyze_budget_speech_except(prompt)
            ELSE [ret |-> IF completion = "ok" THEN Returned(ModelAnswer) ELSE Returned(AnalysisEmpty),
                  prompt |-> prompt]
        analyze_speech(speech_data) ==
            IF speech_data = <<>> THEN [ret |-> Returned(NoSpeech), prompt |-> <<>>]
            ELSE send_analysis(analysis_prompt(speech_data[1].ai_summary, get_year_overview(year)))
    IN
        IF ~speeches.loaded THEN analyze_budget_speech_except(<<>>)
        ELSE analyze_speech(rows_of_year(speeches.rows, year))

\* the except clause of get_conversation_summary
get_conversation_summary_except(prompt) == [ret |-> Returned(SummaryError), prompt |-> prompt]

\* get_conversation_summary
get_conversation_summary(history, completion) ==
    LET
        send_summary(prompt) ==
            IF completion = "raise" THEN get_conversation_summary_except(prompt)
            ELSE [ret |-> IF completion = "ok" THEN Returned(ModelAnswer) ELSE Returned(SummaryEmpty),
                  prompt |-> prompt]
    IN
        IF history = <<>> THEN [ret |-> Returned(NoHistory), prompt |-> <<>>]
        ELSE send_summary(<< [role |-> "summary",
                              recent_conversation |-> Tail_n(history, SummaryWindow)] >>)

GetResponse(user_query, selected_year, completion) ==
    LET
        \* the effect of one get_response call that produced r
        Responded(r) ==
            /\ conversation_history' = r.history
            /\ chat_result' = [op |-> "get_response", kind |-> r.ret.kind, text |-> r.ret.text,
                               completion |-> completion]
            /\ sent_prompt' = r.prompt
            /\ messages' = r.messages
            /\ calls' = calls + 1
            /\ UNCHANGED tables
            /\ UNCHANGED result
    IN
        Responded(get_response(conversation_history, user_query, selected_year, completion))

\* the effect of a call that keeps the history: analysis or summary
Replied(op, r, completion) ==
    /\ chat_result' = [op |-> op, kind |-> r.ret.kind, text |-> r.ret.text,
                       completion |-> completion]
    /\ sent_prompt' = r.prompt
    /\ UNCHANGED <<conversation_history, messages, calls>>
    /\ UNCHANGED tables
    /\ UNCHANGED result

AnalyzeBudgetSpeech(year, completion) ==
    Replied("analyze_budget_speech", analyze_budget_speech(year, completion), completion)

GetConversationSummary(completion) ==
    Replied("get_conversation_summary",
            get_conversation_summary(conversation_history, completion), completion)

ClearConversation ==
    /\ conversation_history' = <<>>
    /\ UNCHANGED <<chat_result, sent_prompt, messages, calls>>
    /\ UNCHANGED tables
    /\ UNCHANGED result

\* one chatbot session with every outcome of the completion service
InitChat ==
    /\ TablesInit({0, 1, 5}, {Disk(Revenue1, Expenditure1, Summary1, Detailed1, Speech1),
                              Disk(Revenue2, Expenditure2, Summary2, Detailed1, Speech2)})
    /\ result = NoResult
    /\ ChatInit

NextChat ==
    \/ \E q \in ChatQueries, y \in SelectedYears, c \in Completions :
         calls < MaxCalls /\ GetResponse(q, y, c)
    \/ \E y \in YearInputs, c \in Completions : AnalyzeBudgetSpeech(y, c)
    \/ \E c \in Completions : GetConversationSummary(c)
    \/ ClearConversation

SpecChat == InitChat /\ [][NextChat]_vars

\* a long conversation: enough calls to fill the history
InitLong ==
    /\ TablesInit({0}, {Disk(Revenue1, Expenditure1, Summary1, Detailed1, Speech1)})
    /\ result = NoResult
    /\ ChatInit

NextLong ==
    \/ \E c \in {"ok", "raise"} :
         calls < MaxCallsLong /\ GetResponse(<<"d", "e", "f">>, 0, c)
    \/ ClearConversation

SpecLong == InitLong /\ [][NextLong]_vars

----------------------------------------------------------------------------
(* The context of a prompt over tables with more hits than the context lists *)
ManyRows == 6

\* a data directory in which the query 'def' hits ManyRows + 1 ministries,
\* ManyRows schemes and ManyRows revenue sources
BigDisk ==
    LET
        ministry(i) == [name |-> MinistryOfDefence \o <<ToString(i)>>, rank |-> i + 1,
                        total10 |-> "t", amt |-> YearRow(Str(1), Str(1), Str(2), Str(i))]
        scheme(i) == [year |-> 2025, ministry_name |-> MinistryOfDefence,
                      grant_or_scheme_name |-> <<"d", "e", "f", "s", ToString(i)>>,
                      amount_in_crores |-> i, expenditure_type |-> "Revenue",
                      estimate_type |-> "BE"]
        source(i) == [name |-> <<"d", "e", "f", "r", ToString(i)>>,
                      amt |-> YearRow(Str(1), Str(1), Str(2), Str(i))]
    IN
        Disk(<< [name |-> GST, amt |-> YearRow(NaN, Str(2), Str(6), Str(6))] >>
                \o [i \in 1..ManyRows |-> source(i)],
             << [name |-> MinistryOfDefence, rank |-> 1, total10 |-> "t",
                 amt |-> YearRow(Str(2), Str(2), Str(5), Str(9))] >>
                \o [i \in 1..ManyRows |-> ministry(i)],
             Summary1,
             [i \in 1..ManyRows |-> scheme(i)],
             Speech1)

\* all files are read, or revenues_detailed.csv is the first that cannot be read
InitContext ==
    /\ TablesInit({0, 5}, {Disk(Revenue1, Expenditure1, Summary1, Detailed1, Speech1), BigDisk})
    /\ result = NoResult
    /\ ChatInit

NextContext ==
    \E q \in {<<"d", "e", "f">>, <<"x">>}, y \in {0, 2025, 2030}, c \in Completions :
        calls < MaxCalls /\ GetResponse(q, y, c)

SpecContext == InitContext /\ [][NextContext]_vars

----------------------------------------------------------------------------
(* The deficit trend over summary tables with every order of two ratios *)
\* budget_summary.csv with a record for any of the years 2023..2025, each with a
\* deficit ratio of 1.5, 2 or 2.5 percent of GDP; the other files as on the first disk
TrendDisks ==
    LET
        records(ys, ratio) == [i \in 1..Len(ys) |-> SummaryRecord(ys[i], 10, 15, 100, ratio[ys[i]])]
        summary(present, ratio) == records(SelectIdx(2025, present, 2023), ratio)
    IN
        {Disk(Revenue1, Expenditure1, summary(present, ratio), Detailed1, Speech1) :
            present \in SUBSET (2023..2025), ratio \in [2023..2025 -> {3, 4, 5}]}

\* the summary file is read, or it is the first one that cannot be read
InitTrend ==
    /\ TablesInit({0, 3}, TrendDisks)
    /\ result = NoResult
    /\ ChatInit

GetDeficitTrend(s, current_year) ==
    Call(s, "_get_deficit_trend", current_year, <<>>, <<>>,
         [kind |-> "data", deficit_trend |-> _get_deficit_trend(current_year)])

NextTrend ==
    \/ \E y \in 2023..2025 : GetYearOverview(1, y)
    \/ \E y \in 2023..2026 : GetDeficitTrend(1, y)

SpecTrend == InitTrend /\ [][NextTrend]_vars

----------------------------------------------------------------------------
(* The insights report over summary tables of four years *)
\* budget_summary.csv with the records of 2022..2025, latest or earliest year
\* first; the deficit ratios of 2022 and 2025 range from 1.5 to 4.5 percent around
\* the 3 percent of the years between, and the GDP of 2025 may be recorded as 0.
\* year_wise_revenue.csv is that of the first disk, or one with amounts of 0
FiscalDisks ==
    LET
        revenue_with_zero ==
            << [name |-> CorporationTax, amt |-> YearRow(Str(0), Str(2), Str(3), Str(0))],
               [name |-> GST, amt |-> YearRow(NaN, Str(2), Str(6), Str(6))] >>
        records(first, last, gdp) ==
            << SummaryRecord(2022, 1, 2, 10, first), SummaryRecord(2023, 1, 2, 10, 6),
               SummaryRecord(2024, 1, 2, 10, 6), SummaryRecord(2025, 2, 3, gdp, last) >>
        reversed(rs) == [i \in 1..Len(rs) |-> rs[Len(rs) + 1 - i]]
    IN
        {Disk(revenue, Expenditure1,
              IF latest_first THEN reversed(records(first, last, gdp)) ELSE records(first, last, gdp),
              Detailed1, Speech1) :
            revenue \in {Revenue1, revenue_with_zero},
            first \in 3..9, last \in 3..9, gdp \in {0, 10}, latest_first \in BOOLEAN}

InitFiscal ==
    /\ TablesInit({0}, FiscalDisks)
    /\ result = NoResult
    /\ ChatInit

NextFiscal ==
    \/ \E y \in {2024, 2025} : GetYearOverview(1, y)
    \/ GetInsightsData(1)

SpecFiscal == InitFiscal /\ [][NextFiscal]_vars

----------------------------------------------------------------------------
(* Rankings over an expenditure table longer than the lists cut from it *)
RankRows == 16

\* year_wise_expenditures.csv with RankRows ministries: the amounts repeat with
\* periods p, q and 3, so that every ranking has ties; some cells are blank or 0
RankingDisks ==
    LET
        start(i, p) == IF i % 5 = 0 THEN (IF i % 10 = 0 THEN Str(0) ELSE NaN)
                       ELSE Str(1 + ((i * p) % 5))
        end(i, q) == IF i = 3 THEN NaN ELSE Str((i * q) % 7)
        ministry(i, p, q) ==
            [name |-> <<"M", ToString(i)>>, rank |-> i, total10 |-> "t",
             amt |-> YearRow(start(i, p), NaN, Str((i + q) % 3), end(i, q))]
    IN
        {Disk(Revenue1, [i \in 1..RankRows |-> ministry(i, p, q)], Summary1, Detailed1, Speech1) :
            p \in 1..4, q \in 1..6}

InitRanking ==
    /\ TablesInit({0}, RankingDisks)
    /\ result = NoResult
    /\ ChatInit

NextRanking ==
    \/ \E y \in {2016, 2024, 2025} : GetYearOverview(1, y)
    \/ GetInsightsData(1)

SpecRanking == InitRanking /\ [][NextRanking]_vars

----------------------------------------------------------------------------
(* Properties *)

\* C1: conversation_history never holds more than 20 entries, whatever the
\* outcomes of the get_response calls and however they interleave with
\* clear_conversation
C1_HistoryCapped == Len(conversation_history) <= HistoryCap

\* C2: get_response, analyze_budget_speech and get_conversation_summary always
\* return a string and never raise; the model's answer is returned only when the
\* completion call succeeded with a text, every other outcome gives a fallback text
C2_ChatNeverRaises ==
    chat_result.op # "none" =>
        /\ chat_result.kind = "string"
        /\ chat_result.text = ModelAnswer => chat_result.completion = "ok"
        /\ chat_result.completion # "ok" =>
             chat_result.text \in {Apology, ErrorReply, NoSpeech, AnalysisEmpty, AnalysisError,
                                   SummaryEmpty, SummaryError, NoHistory}

\* C2 witness: a get_response whose completion call raised returned the apology
C2_Witness ==
    /\ chat_result.op = "get_response"
    /\ chat_result.completion = "raise"
    /\ sent_prompt # <<>>
    /\ chat_result.kind = "string"
    /\ chat_result.text = ErrorReply

\* which of the five sub-computations of get_insights_data raise in this state
SubReportRaises ==
    [revenue_trends |-> revenue_trends_raises,
     expenditure_patterns |-> expenditure_patterns_raises,
     fiscal_analysis |-> fiscal_trends_raises,
     ministry_performance |-> ministry_performance_raises,
     key_findings |-> key_findings_raises]

\* C3: when exactly one sub-computation of get_insights_data raises, the result
\* still carries the output of each of the other four
C3_SubReportsIndependent ==
    (/\ result.op = "get_insights_data"
     /\ Cardinality({f \in DOMAIN SubReportRaises : SubReportRaises[f]}) = 1)
    => \A f \in DOMAIN SubReportRaises :
          ~SubReportRaises[f] => f \in DOMAIN result.value

LoadFailed == \E i \in 1..Len(tables) : ~tables[i].loaded

\* C4: a load that failed on one file leaves no table loaded, and no read
\* operation returns data afterwards
C4_LoadAllOrNothing ==
    (LoadFailed /\ result.op # "none") =>
        /\ \A i \in 1..Len(tables) : ~tables[i].loaded
        /\ result.value.kind # "data"

\* C5: the prompt passed to the completion service by get_response carries the
\* system instruction, the context and the query, and the text of each of the
\* (up to) 6 most recent history messages
C5_PromptHasHistory ==
    (chat_result.op = "get_response" /\ sent_prompt # <<>>) =>
        /\ \E j \in 1..Len(sent_prompt) : sent_prompt[j].role = "system"
        /\ \E j \in 1..Len(sent_prompt) :
              /\ sent_prompt[j].role = "user"
              /\ "context" \in DOMAIN sent_prompt[j]
        /\ \A i \in 2..(Len(messages) - 1) :
              \E j \in 1..Len(sent_prompt) : sent_prompt[j].content = messages[i].content

\* C6: no step of a read operation, from any session, changes a loaded table
C6_ReadsDoNotMutate == [][tables' = tables]_vars

\* C6 witness: the second session got a year overview with data from the tables
C6_Witness ==
    /\ result.session = 2
    /\ result.op = "get_year_overview"
    /\ result.value.kind = "data"
    /\ result.value.top_ministries # <<>>

DataFields == {"budget_summary", "revenue_breakdown", "top_ministries", "key_schemes",
               "speech_summary", "fiscal_health"}

\* C7: get_year_overview of a year without a summary record returns an error and
\* none of the data fields; with the summary table loaded it is the not-found error
C7_NotFoundNoPartialData ==
    (result.op = "get_year_overview" /\ summary_rows(result.year) = <<>>) =>
        /\ result.value.kind = "error"
        /\ DOMAIN result.value \cap DataFields = {}
        /\ budget_summary.loaded => result.value = NotFound(result.year)

\* C7 witness: the summary table has records, none for the requested year, while
\* the revenue table has amounts for that year
C7_Witness ==
    /\ result.op = "get_year_overview"
    /\ budget_summary.loaded /\ budget_summary.rows # <<>>
    /\ summary_rows(result.year) = <<>>
    /\ has_year_col(result.year)
    /\ revenue_data.loaded /\ positive_rows(revenue_data, result.year) # <<>>
    /\ result.value = NotFound(result.year)

\* C8: none of the five read operations raises, whatever the input and the
\* state of the tables
C8_ReadsNeverRaise == result.value.kind # "raised"

\* the requested years that have a summary record, in the caller's order
years_found(years) ==
    SelectIdx(Len(years), {k \in 1..Len(years) : summary_rows(years[k]) # <<>>}, 1)

\* C9: with the tables loaded, get_comparison_data returns an error exactly when
\* none of the requested years has a summary record, and otherwise a result with
\* the summary record of each requested year that has one
C9_NotFoundIffNoYear ==
    (/\ result.op = "get_comparison_data"
     /\ result.years # <<>>
     /\ ~comparison_raises(result.years))
    => /\ result.value.kind = "error" <=> years_found(result.years) = <<>>
       /\ years_found(result.years) # <<>> =>
            \A k \in 1..Len(years_found(result.years)) :
               \E i \in 1..Len(result.value.budget_summary) :
                  result.value.budget_summary[i].year = result.years[years_found(result.years)[k]]

NoRepeatedYear(series) ==
    \A i, j \in 1..Len(series) : i # j => series[i].year # series[j].year

\* C10: the budget_summary list and every revenue and ministry series of
\* get_comparison_data hold each year at most once, also when the caller's list
\* repeats a year
C10_YearsDeduplicated ==
    (result.op = "get_comparison_data" /\ result.value.kind = "data") =>
        /\ NoRepeatedYear(result.value.budget_summary)
        /\ \A i \in 1..Len(result.value.revenue_comparison) :
              NoRepeatedYear(result.value.revenue_comparison[i].series)
        /\ \A i \in 1..Len(result.value.ministry_trends) :
              NoRepeatedYear(result.value.ministry_trends[i].series)

\* the series of a comparison dict follow the table: the rows named in listed have
\* an entry for a requested year exactly when the amount of that year is defined,
\* and every entry carries the amount of the table
SeriesFollowTable(dict, rows, listed, years) ==
    /\ \A r \in 1..Len(listed), k \in 1..Len(years) :
          (\E i \in 1..Len(dict) :
              /\ dict[i].key = listed[r].name
              /\ \E j \in 1..Len(dict[i].series) : dict[i].series[j].year = years[k])
          <=> (/\ years[k] \in AllYears
               /\ notna(first_named(rows, listed[r].name).amt[years[k]]))
    /\ \A i \in 1..Len(dict) : \A j \in 1..Len(dict[i].series) :
          /\ dict[i].series[j].year \in AllYears
          /\ dict[i].series[j].amount # NaN
          /\ dict[i].series[j].amount = first_named(rows, dict[i].key).amt[dict[i].series[j].year]

name_hits(pat) ==
    SelectIdx(Len(expenditure_data.rows),
              {i \in 1..Len(expenditure_data.rows) : contains(expenditure_data.rows[i].name, pat)}, 1)

\* C12: get_ministry_details resolves to the first ministry in table order whose
\* name contains the pattern; it returns an error when no name matches or when the
\* amount of that ministry for the year is undefined, and otherwise the name and
\* the amount of that ministry
C12_FirstNameMatchResolved ==
    (/\ result.op = "get_ministry_details"
     /\ ~ministry_details_raises(result.year, result.pattern))
    => IF name_hits(result.pattern) = <<>>
       THEN result.value.kind = "error"
       ELSE IF ~notna(expenditure_data.rows[name_hits(result.pattern)[1]].amt[result.year])
       THEN result.value.kind = "error"
       ELSE /\ result.value.kind = "data"
            /\ result.value.ministry_name = expenditure_data.rows[name_hits(result.pattern)[1]].name
            /\ result.value.current_allocation =
                   expenditure_data.rows[name_hits(result.pattern)[1]].amt[result.year]

\* the detailed line items of one year and one ministry, as major_schemes reports them
line_items_of(year, ministry) ==
    LET items(d) == [i \in 1..Len(d) |-> [scheme |-> d[i].grant_or_scheme_name,
                                          amount |-> d[i].amount_in_crores,
                                          type |-> d[i].expenditure_type]]
    IN items(Filter(detailed_expenditures.rows,
                    {i \in 1..Len(detailed_expenditures.rows) :
                       /\ detailed_expenditures.rows[i].year = year
                       /\ detailed_expenditures.rows[i].ministry_name = ministry}))

\* C13: the major_schemes of get_ministry_details are exactly the detailed line
\* items of the requested year whose ministry is the one named in ministry_name
C13_SchemesOfResolvedMinistry ==
    (result.op = "get_ministry_details" /\ result.value.kind = "data") =>
        result.value.major_schemes = line_items_of(result.year, result.value.ministry_name)

C15_RevenueSharesSumTo100 ==
    (result.op = "get_year_overview" /\ result.value.kind = "data") =>
        LET rb == result.value.revenue_breakdown
            total == SumAmount(rb)
            positive == {i \in 1..Len(revenue_data.rows) :
                           /\ notna(revenue_data.rows[i].amt[result.year])
                           /\ revenue_data.rows[i].amt[result.year] > 0}
        IN /\ Len(rb) = Cardinality(positive)
           /\ \A i \in positive : \E j \in 1..Len(rb) :
                 /\ rb[j].source = revenue_data.rows[i].name
                 /\ rb[j].amount = revenue_data.rows[i].amt[result.year]
           /\ \A j \in 1..Len(rb) :
                 /\ rb[j].percentage.den # 0
                 /\ rb[j].percentage = Pct(rb[j].amount, total)
           /\ SumSeq([j \in 1..Len(rb) |-> rb[j].percentage.num])
                 = IF rb = <<>> THEN 0 ELSE 100 * total

\* C15 witness: amounts 6 and 4 for the year give the shares 600/10 and 400/10
C15_Witness ==
    /\ result.op = "get_year_overview"
    /\ result.value.kind = "data"
    /\ Len(result.value.revenue_breakdown) = 2
    /\ result.value.revenue_breakdown[1].amount = 6
    /\ result.value.revenue_breakdown[1].percentage = [num |-> 600, den |-> 10]
    /\ result.value.revenue_breakdown[2].percentage = [num |-> 400, den |-> 10]

\* the deficit trend a result reports, and the year it is about
reported_trend ==
    IF result.op = "_get_deficit_trend" THEN result.value.deficit_trend
    ELSE result.value.fiscal_health.deficit_trend
ratio_of(y) == summary_rows(y)[1].fiscal_deficit_as_gdp_pct

\* C16: the deficit trend of year y is "Improving" when the ratio of y is strictly
\* lower than that of y-1, "Deteriorating" when strictly higher, "Stable" when
\* equal, "No trend data" when y-1 has no record, "Unknown" when the computation
\* fails because the table or the record of y is missing
C16_DeficitTrendClassified ==
    (\/ result.op = "_get_deficit_trend"
     \/ result.op = "get_year_overview" /\ result.value.kind = "data")
    => IF ~budget_summary.loaded \/ summary_rows(result.year) = <<>>
       THEN reported_trend = "Unknown"
       ELSE IF summary_rows(result.year - 1) = <<>>
       THEN reported_trend = "No trend data"
       ELSE /\ ratio_of(result.year) < ratio_of(result.year - 1) <=> reported_trend = "Improving"
            /\ ratio_of(result.year) > ratio_of(result.year - 1) <=> reported_trend = "Deteriorating"
            /\ ratio_of(result.year) = ratio_of(result.year - 1) <=> reported_trend = "Stable"

\* C16 witness: a year overview reports a deficit that rose from 1.5 to 2.5 percent
C16_Witness ==
    /\ result.op = "get_year_overview"
    /\ result.value.kind = "data"
    /\ result.year = 2025
    /\ summary_rows(2024) # <<>>
    /\ ratio_of(2024) = 3
    /\ ratio_of(2025) = 5
    /\ result.value.fiscal_health.deficit_trend = "Deteriorating"

\* the records of 2023 and 2025 carry the same ratio: the trend of 2024 and the
\* trend of 2025 then compare the same two ratios with the roles exchanged
RolesExchanged ==
    /\ budget_summary.loaded
    /\ \A y \in 2023..2025 : summary_rows(y) # <<>>
    /\ ratio_of(2023) = ratio_of(2025)

\* C17: the classification is anti-symmetric: when a as current against b as
\* previous is "Improving", b as current against a as previous is "Deteriorating",
\* and the other way round; "Stable" in both directions only when a = b
C17_TrendAntiSymmetric ==
    (/\ result.op = "_get_deficit_trend"
     /\ result.year \in {2024, 2025}
     /\ RolesExchanged)
    => LET forward == result.value.deficit_trend
           backward == _get_deficit_trend(IF result.year = 2024 THEN 2025 ELSE 2024)
       IN /\ forward = "Improving" <=> backward = "Deteriorating"
          /\ forward = "Deteriorating" <=> backward = "Improving"
          /\ (forward = "Stable" /\ backward = "Stable")
                => ratio_of(2024) = ratio_of(2025)

\* C17 witness: 2 percent against 2.5 is an improvement, 2.5 against 2 a deterioration
C17_Witness ==
    /\ result.op = "_get_deficit_trend"
    /\ result.year = 2024
    /\ RolesExchanged
    /\ ratio_of(2024) = 4
    /\ ratio_of(2025) = 5
    /\ result.value.deficit_trend = "Improving"
    /\ _get_deficit_trend(2025) = "Deteriorating"

\* query occurs in name as a literal substring, letter case ignored
literal_contains(name, query) ==
    \E i \in 0..(Len(name) - Len(query)) :
        \A j \in 1..Len(query) : lower(query[j]) = lower(name[i + j])
\* the names of a table that contain the query literally, in table order
literal_matches(names, query) ==
    Filter(names, {i \in 1..Len(names) : literal_contains(names[i], query)})

\* C18: search_data(query) returns in each category exactly the records whose
\* name contains query as a case-insensitive literal substring, in table order
C18_SearchLiteralSubstring ==
    (result.op = "search_data" /\ result.value.kind = "data")
    => /\ [i \in 1..Len(result.value.ministries) |-> result.value.ministries[i].name]
            = literal_matches([i \in 1..Len(expenditure_data.rows) |-> expenditure_data.rows[i].name],
                              result.pattern)
       /\ [i \in 1..Len(result.value.schemes) |-> result.value.schemes[i].name]
            = literal_matches([i \in 1..Len(detailed_expenditures.rows) |->
                                    detailed_expenditures.rows[i].grant_or_scheme_name],
                              result.pattern)
       /\ [i \in 1..Len(result.value.revenue_sources) |-> result.value.revenue_sources[i].source]
            = literal_matches([i \in 1..Len(revenue_data.rows) |-> revenue_data.rows[i].name],
                              result.pattern)

\* the year a prompt was built for: 0 when its context has no year block
selected_year_of(parts) ==
    IF parts # <<>> /\ parts[1].section = "year" THEN parts[1].selected_year ELSE 0
\* nothing to say about the query: no summary data of the year, no hit, no finding
every_section_empty(user_query, selected_year) ==
    /\ selected_year = 0 \/ get_year_overview(selected_year).kind # "data"
    /\ search_data(user_query).ministries = <<>>
    /\ search_data(user_query).schemes = <<>>
    /\ search_data(user_query).revenue_sources = <<>>
    /\ get_insights_data.kind = "data" => get_insights_data.key_findings = <<>>

\* C19: _prepare_context returns the sentinel if and only if every section is
\* empty; a selected year without a summary record does not by itself make the
\* context non-empty
C19_SentinelIffAllEmpty ==
    (chat_result.op = "get_response" /\ sent_prompt # <<>>)
    => (sent_prompt[2].context.sentinel
            <=> every_section_empty(sent_prompt[2].content,
                                    selected_year_of(sent_prompt[2].context.parts)))

\* the place of a section in the context
section_rank(part) ==
    CASE part.section = "year" -> 1
      [] part.section = "ministries" -> 2
      [] part.section = "schemes" -> 3
      [] part.section = "revenue_sources" -> 4
      [] part.section = "insights" -> 5
\* the front of a list: its first n elements in their order, the whole list if shorter
front(list, n) == [i \in 1..(IF Len(list) < n THEN Len(list) ELSE n) |-> list[i]]
\* the list a section of the context for query draws from, and how much of it
section_source(part, query) ==
    CASE part.section = "ministries" -> front(search_data(query).ministries, 5)
      [] part.section = "schemes" -> front(search_data(query).schemes, 5)
      [] part.section = "revenue_sources" -> search_data(query).revenue_sources
      [] part.section = "insights" ->
            IF get_insights_data.kind = "data"
            THEN front(get_insights_data.key_findings, 3) ELSE <<>>
ContextAsListed(parts, query, selected_year) ==
    /\ \A i \in 1..Len(parts), j \in 1..Len(parts) :
         i < j => section_rank(parts[i]) < section_rank(parts[j])
    /\ selected_year # 0 <=> (parts # <<>> /\ parts[1].section = "year")
    /\ selected_year # 0 => parts[1].selected_year = selected_year
    /\ \A i \in 1..Len(parts) :
         parts[i].section # "year" =>
            /\ parts[i].items = section_source(parts[i], query)
            /\ parts[i].items # <<>>
    /\ \A name \in {"ministries", "schemes", "revenue_sources", "insights"} :
         section_source([section |-> name], query) # <<>>
            => \E i \in 1..Len(parts) : parts[i].section = name

\* C20: the context of a prompt lists, in this order, the year block if a year was
\* supplied, at most 5 ministry hits, at most 5 scheme hits, all revenue-source
\* hits and at most 3 key findings, each taken from the front of its result list
C20_ContextOrderAndCaps ==
    [][\A q \in {<<"d", "e", "f">>, <<"x">>}, y \in {0, 2025, 2030}, c \in Completions :
         (GetResponse(q, y, c) /\ sent_prompt' # <<>>)
            => ContextAsListed(sent_prompt'[2].context.parts, q, y)]_vars

\* C20 witness: a prompt with all five sections, built from 7 ministry hits,
\* 6 scheme hits, 6 revenue-source hits and 4 key findings
C20_Witness ==
    /\ chat_result.op = "get_response"
    /\ sent_prompt # <<>>
    /\ Len(sent_prompt[2].context.parts) = 5
    /\ sent_prompt[2].context.parts[1].selected_year = 2025
    /\ Len(search_data(sent_prompt[2].content).ministries) > 5
    /\ Len(sent_prompt[2].context.parts[2].items) = 5
    /\ Len(search_data(sent_prompt[2].content).schemes) > 5
    /\ Len(sent_prompt[2].context.parts[3].items) = 5
    /\ Len(sent_prompt[2].context.parts[4].items) > 5
    /\ Len(get_insights_data.key_findings) > 3
    /\ Len(sent_prompt[2].context.parts[5].items) = 3

half_points(records) == SumSeq([i \in 1..Len(records) |-> records[i].fiscal_deficit_as_gdp_pct])
\* mean(recent) <= mean(early) - 0.5, for sums of half points over nr and ne years
at_least_half_point_lower(recent, nr, early, ne) == recent * ne <= early * nr - nr * ne
windows_classified(trend, yearly) ==
    LET early == Head_n(yearly, 3)
        recent == Tail_n(yearly, 3)
    IN trend =
         IF at_least_half_point_lower(half_points(recent), Len(recent), half_points(early), Len(early))
         THEN "Improving fiscal health"
         ELSE IF at_least_half_point_lower(half_points(early), Len(early), half_points(recent), Len(recent))
         THEN "Deteriorating fiscal health"
         ELSE "Stable fiscal health"

\* C22: the fiscal trend of the insights report is Improving when the mean deficit
\* ratio of the three latest years is at least 0.5 points below that of the three
\* earliest years, exactly 0.5 included, Deteriorating when at least 0.5 points
\* above, exactly 0.5 included, and Stable otherwise
C22_HalfPointInclusive ==
    (/\ result.op = "get_insights_data"
     /\ result.value.kind = "data"
     /\ budget_summary.rows # <<>>)
    => windows_classified(result.value.fiscal_analysis.trend_analysis,
                          SortByYear(budget_summary.rows, <<>>))

\* the growth rates of a source over the pairs of consecutive years whose amounts
\* are both defined and strictly positive
rates_of_positive_pairs(source_data) ==
    LET
        rate(year) == [year |-> year,
                       growth_rate |-> Frac((source_data.amt[year] - source_data.amt[year - 1]) * 100,
                                            source_data.amt[year - 1])]
        rates(ys) == [i \in 1..Len(ys) |-> rate(ys[i])]
    IN
        rates(SelectIdx(LastYear, {year \in (FirstYear + 1)..LastYear :
                          /\ notna(source_data.amt[year]) /\ source_data.amt[year] > 0
                          /\ notna(source_data.amt[year - 1]) /\ source_data.amt[year - 1] > 0},
                        FirstYear + 1))

\* C23: for each tracked revenue source the report holds a growth rate for year y
\* if and only if both y and y-1 have defined, strictly positive amounts, with
\* value (cur - prev) / prev * 100; avg_growth is the mean of these rates, 0 if none
C23_GrowthOfPositivePairs ==
    (result.op = "get_insights_data" /\ result.value.kind = "data")
    => \A k \in 1..Len(result.value.revenue_trends) :
         LET trend == result.value.revenue_trends[k]
             rates == rates_of_positive_pairs(first_named(revenue_data.rows, trend.source))
         IN /\ trend.growth_rates = rates
            /\ trend.avg_growth =
                 IF rates = <<>> THEN Frac(0, 1)
                 ELSE FMean([j \in 1..Len(rates) |-> rates[j].growth_rate])

\* the key findings hold a growth figure with this text
has_finding(findings, text) == \E i \in 1..Len(findings) : findings[i].text = text

\* C24: a derived value that depends on a missing amount is omitted, not computed
\* with 0: the growth figures of the key findings are given only when both
\* amounts they compare are defined
C24_MissingNeverZero ==
    (result.op = "get_insights_data" /\ result.value.kind = "data")
    => /\ has_finding(result.value.key_findings, "GST revenue has grown")
            => /\ notna(first_named(revenue_data.rows, GST).amt[GstReferenceYear])
               /\ notna(first_named(revenue_data.rows, GST).amt[LastYear])
       /\ has_finding(result.value.key_findings, "Defense spending has increased")
            => /\ notna(first_named(expenditure_data.rows, MinistryOfDefence).amt[FirstYear])
               /\ notna(first_named(expenditure_data.rows, MinistryOfDefence).amt[LastYear])

\* the rows of the expenditure table with a positive amount for year y
ranked_rows(y) ==
    {i \in 1..Len(expenditure_data.rows) :
        notna(expenditure_data.rows[i].amt[y]) /\ expenditure_data.rows[i].amt[y] > 0}
\* the rows that come before row i in the ranking of year y: a larger amount, or
\* the same amount and an earlier place in the table
ranked_before(i, y) ==
    {j \in ranked_rows(y) :
        \/ expenditure_data.rows[j].amt[y] > expenditure_data.rows[i].amt[y]
        \/ expenditure_data.rows[j].amt[y] = expenditure_data.rows[i].amt[y] /\ j < i}

\* C25: top_ministries is sorted by the amount of the year in descending order,
\* ministries of equal amount stand in table order, and the list holds the top_n
\* largest, at most top_n = 10
C25_TopMinistriesRanked ==
    (/\ result.op = "get_year_overview"
     /\ result.value.kind = "data"
     /\ has_year_col(result.year))
    => LET top == result.value.top_ministries
       IN /\ Len(top) = IF Cardinality(ranked_rows(result.year)) < 10
                        THEN Cardinality(ranked_rows(result.year)) ELSE 10
          /\ \A k \in 1..Len(top) :
               \E i \in ranked_rows(result.year) :
                  /\ top[k].ministry = expenditure_data.rows[i].name
                  /\ top[k].amount = expenditure_data.rows[i].amt[result.year]
                  /\ Cardinality(ranked_before(i, result.year)) = k - 1

\* C25 witness: 10 of more than 10 ministries are listed; the list has two
\* neighbours of equal amount, and the cut falls between two ministries of equal amount
C25_Witness ==
    /\ result.op = "get_year_overview"
    /\ result.value.kind = "data"
    /\ Cardinality(ranked_rows(result.year)) > 10
    /\ Len(result.value.top_ministries) = 10
    /\ \E k \in 1..9 :
         result.value.top_ministries[k].amount = result.value.top_ministries[k + 1].amount
    /\ \E i \in ranked_rows(result.year) :
         /\ expenditure_data.rows[i].amt[result.year] = result.value.top_ministries[10].amount
         /\ Cardinality(ranked_before(i, result.year)) >= 10

\* the rows of the expenditure table with a computable first-to-last-year growth
growth_rows ==
    {i \in 1..Len(expenditure_data.rows) :
        /\ notna(expenditure_data.rows[i].amt[FirstYear])
        /\ notna(expenditure_data.rows[i].amt[LastYear])
        /\ expenditure_data.rows[i].amt[FirstYear] > 0}
\* (end - start) / start of row i exceeds, or equals, that of row j
grows_more(i, j) ==
    (expenditure_data.rows[i].amt[LastYear] - expenditure_data.rows[i].amt[FirstYear])
        * expenditure_data.rows[j].amt[FirstYear]
    > (expenditure_data.rows[j].amt[LastYear] - expenditure_data.rows[j].amt[FirstYear])
        * expenditure_data.rows[i].amt[FirstYear]
grows_alike(i, j) == ~grows_more(i, j) /\ ~grows_more(j, i)
\* the place of row i in the ranking by growth, ties in table order
growth_place(i) ==
    1 + Cardinality({j \in growth_rows : grows_more(j, i) \/ (grows_alike(i, j) /\ j < i)})
\* entry is the entry of the row at this place of the ranking
is_ranked(entry, place) ==
    \E i \in growth_rows :
        /\ growth_place(i) = place
        /\ entry.name = expenditure_data.rows[i].name
        /\ entry.key.den = expenditure_data.rows[i].amt[FirstYear]
        /\ entry.key.num = (expenditure_data.rows[i].amt[LastYear]
                              - expenditure_data.rows[i].amt[FirstYear]) * 100
smaller(a, b) == IF a < b THEN a ELSE b

\* C26: the growth from 2016 to 2025 is computed for exactly the ministries whose
\* two amounts are defined and whose 2016 amount is positive; top_growing_ministries
\* are the 10 highest and declining_ministries the 5 lowest of the ranking by that
\* growth, ties in table order
C26_GrowthRanking ==
    (result.op = "get_insights_data" /\ result.value.kind = "data")
    => LET top == result.value.expenditure_patterns.top_growing_ministries
           declining == result.value.expenditure_patterns.declining_ministries
           n == Cardinality(growth_rows)
       IN /\ Len(top) = smaller(n, 10)
          /\ \A k \in 1..Len(top) : is_ranked(top[k], k)
          /\ Len(declining) = smaller(n, 5)
          /\ \A k \in 1..Len(declining) : is_ranked(declining[k], n - Len(declining) + k)

\* C26 witness: more than 10 ministries have a growth, some have none; both lists
\* are full and each holds two neighbours of equal growth
C26_Witness ==
    /\ result.op = "get_insights_data"
    /\ result.value.kind = "data"
    /\ Cardinality(growth_rows) > 10
    /\ Cardinality(growth_rows) < Len(expenditure_data.rows)
    /\ Len(result.value.expenditure_patterns.top_growing_ministries) = 10
    /\ Len(result.value.expenditure_patterns.declining_ministries) = 5
    /\ \E k \in 1..9 :
         LET top == result.value.expenditure_patterns.top_growing_ministries
         IN top[k].key.num * top[k + 1].key.den = top[k + 1].key.num * top[k].key.den
    /\ \E k \in 1..4 :
         LET declining == result.value.expenditure_patterns.declining_ministries
         IN declining[k].key.num * declining[k + 1].key.den
              = declining[k + 1].key.num * declining[k].key.den

\* C27: a get_response call that ends in failure leaves conversation_history
\* exactly as it was before the call
C27_FailureKeepsHistory ==
    [][(calls' = calls + 1 /\ chat_result'.op = "get_response" /\ chat_result'.text = ErrorReply)
         => conversation_history' = conversation_history]_vars

\* C28: conversation_history strictly alternates roles starting with a user entry,
\* and every user entry is followed by the assistant entry of the same call
C28_RolesAlternate ==
    /\ Len(conversation_history) % 2 = 0
    /\ \A i \in 1..Len(conversation_history) :
         conversation_history[i].role = IF i % 2 = 1 THEN "user" ELSE "assistant"

\* C29: top_growing_ministries and declining_ministries of the expenditure-pattern
\* report are disjoint, for any number of ministries with a growth rate
C29_TopAndDecliningDisjoint ==
    (result.op = "get_insights_data" /\ result.value.kind = "data")
    => LET top == result.value.expenditure_patterns.top_growing_ministries
           declining == result.value.expenditure_patterns.declining_ministries
       IN {top[i].name : i \in 1..Len(top)} \cap {declining[i].name : i \in 1..Len(declining)} = {}

\* two ratios are the same finite number
same_ratio(a, b) == a.den # 0 /\ b.den # 0 /\ a.num * b.den = b.num * a.den

\* C30: for every year with a summary record, expenditure_to_gdp and revenue_to_gdp
\* of get_year_overview's fiscal_health equal those of the year in the yearly_data
\* of the insights report's fiscal_analysis, also when the GDP is recorded as 0
C30_RatiosAgree ==
    (result.op = "get_year_overview" /\ result.value.kind = "data")
    => \A i \in 1..Len(_analyze_fiscal_trends.yearly_data) :
         _analyze_fiscal_trends.yearly_data[i].year = result.year
            => /\ same_ratio(result.value.fiscal_health.expenditure_to_gdp,
                             _analyze_fiscal_trends.yearly_data[i].expenditure_to_gdp)
               /\ same_ratio(result.value.fiscal_health.revenue_to_gdp,
                             _analyze_fiscal_trends.yearly_data[i].revenue_to_gdp)

====
